---- MODULE Spec2Model ----
(***************************************************************************)
(* Markdown editor: the multi-window file-ownership and message bridge.    *)
(*                                                                         *)
(* The privileged (main) process of src/src/App.jsx lines 286-599 and the  *)
(* rendering surface (React component App, lines 31-282) exchange          *)
(* messages through the preload bridge (src/src/preload.js).  Strings that *)
(* the code takes apart (paths, file names) are sequences of one-character *)
(* strings, so that path.basename and the export-name regular expression   *)
(* are computed, not assumed.                                              *)
(***************************************************************************)
EXTENDS Naturals, Sequences, FiniteSets, Bags

(* ------------------------------------------------------------------ *)
(* Bounds of the model                                                *)
(* ------------------------------------------------------------------ *)

\* Messages, dialogs and file operations in flight at once, all windows together.
MaxInFlight == 2

\* The window objects the runtime can have allocated at once.
Win == {"w1", "w2"}

\* BrowserWindow.fromWebContents(...) of a destroyed window; focusedWindow when none is focused.
NoWindow == "null"

(* ------------------------------------------------------------------ *)
(* Strings                                                            *)
(* ------------------------------------------------------------------ *)

UpperChars == <<"A","B","C","D","E","F","G","H","I","J","K","L","M",
                "N","O","P","Q","R","S","T","U","V","W","X","Y","Z">>
LowerChars == <<"a","b","c","d","e","f","g","h","i","j","k","l","m",
                "n","o","p","q","r","s","t","u","v","w","x","y","z">>

\* One character, lower-cased (the regular expression's i flag).
ToLower(c) ==
    IF \E i \in 1..Len(UpperChars) : UpperChars[i] = c
    THEN LowerChars[CHOOSE i \in 1..Len(UpperChars) : UpperChars[i] = c]
    ELSE c

LowerSeq(s) == [i \in 1..Len(s) |-> ToLower(s[i])]

\* s ends with suffix, ignoring case.
EndsWithCI(s, suffix) ==
    /\ Len(s) >= Len(suffix)
    /\ LowerSeq(SubSeq(s, Len(s) - Len(suffix) + 1, Len(s))) = LowerSeq(suffix)

\* String.prototype.includes.
Includes(s, part) ==
    \E i \in 1..(Len(s) + 1) :
        /\ i + Len(part) - 1 <= Len(s)
        /\ SubSeq(s, i, i + Len(part) - 1) = part

DotMd       == <<".","m","d">>
DotMarkdown == <<".","m","a","r","k","d","o","w","n">>
DotHtml     == <<".","h","t","m","l">>
SavingChars == <<"S","a","v","i","n","g",".",".",".">>

\* The initial display name, "Untitled.md".
Untitled == <<"U","n","t","i","t","l","e","d",".","m","d">>

\* null / undefined for a path or a name: falsy, like the empty string.
NoPath == <<>>

\* The files the user can pick in a dialog: /d/report.md and /e/Notes.MARKDOWN.
PathReport == <<"/","d","/","r","e","p","o","r","t",".","m","d">>
PathNotes  == <<"/","e","/","N","o","t","e","s",".","M","A","R","K","D","O","W","N">>
Paths      == {PathReport, PathNotes}

\* path.basename: the final segment of a path.
Basename(p) ==
    LET slashes == {i \in 1..Len(p) : p[i] = "/"}
        last    == IF slashes = {} THEN 0
                   ELSE CHOOSE i \in slashes : \A j \in slashes : j <= i
    IN  SubSeq(p, last + 1, Len(p))

\* displayFileName.replace(/\.(md|markdown)$/i, '') + '.html'
DefaultExportNameCaseSensitive(name) ==
    LET ends(suffix) == /\ Len(name) >= Len(suffix)
                        /\ SubSeq(name, Len(name) - Len(suffix) + 1, Len(name)) = suffix
        cut == IF ends(DotMd) THEN Len(DotMd)
               ELSE IF ends(DotMarkdown) THEN Len(DotMarkdown)
               ELSE 0
    IN  SubSeq(name, 1, Len(name) - cut) \o DotHtml
DefaultExportName(name) ==
    LET cut == IF EndsWithCI(name, DotMd) THEN Len(DotMd)
               ELSE IF EndsWithCI(name, DotMarkdown) THEN Len(DotMarkdown)
               ELSE 0
    IN  SubSeq(name, 1, Len(name) - cut) \o DotHtml

(* ------------------------------------------------------------------ *)
(* Document contents and status messages                              *)
(* ------------------------------------------------------------------ *)

\* The welcome template, and a text the user types or a file on disk holds.
DefaultMarkdown == "default"
Texts           == {DefaultMarkdown, "text"}
FileTexts       == {"text"}

\* A request's content: the markdown source, or marked.parse of it.
Markdown(t)    == [fmt |-> "md", text |-> t]
MarkedParse(t) == [fmt |-> "html", text |-> t]
NoContent      == [fmt |-> "none", text |-> ""]

\* err.message of a failed read or write.
ErrMessage == <<"E","A","C","C","E","S">>

\* A status string: a template and what is interpolated at its % sign.
Status(text, arg) == [text |-> text, arg |-> arg]
NoStatus          == Status("", <<>>)

\* saveStatus && saveStatus.includes('Saving...')
IsSaving(s) == s.text = "Saving..." \/ Includes(s.arg, SavingChars)

\* What the rendering surface's behaviour reads of the status it stores:
\* whether it holds 'Saving...' (line 195), which disables the buttons.  The
\* state saveStatus keeps the status up to that reading; the messages carry
\* the full status.
Shown(s) == IF IsSaving(s) THEN "saving" ELSE "idle"

(* ------------------------------------------------------------------ *)
(* State                                                              *)
(* ------------------------------------------------------------------ *)

VARIABLES
    browserWindows,   \* BrowserWindow.getAllWindows(): the windows not destroyed
    allocated,        \* window objects not yet garbage collected
    openWindows,      \* const openWindows = new Set()
    windowFilePaths,  \* const windowFilePaths = new WeakMap(): window -> path
    dialog,           \* the native modal dialog the main process is blocked in
    pendingIO,        \* fs.readFile / fs.writeFile calls whose callback has not run
    title,            \* BrowserWindow's title, per window
    toMain,           \* ipcRenderer.send: per sender, messages not yet handled
    toRenderer,       \* webContents.send: per window, messages not yet handled
    markedText,       \* useState(defaultMarkdown), per window
    fileName,         \* useState(null), per window
    displayFileName,  \* useState("Untitled.md"), per window
    saveStatus,       \* useState(null), per window
    listeners         \* ipcRenderer's listeners, per window and incoming channel

mainVars     == <<browserWindows, allocated, openWindows, windowFilePaths,
                  dialog, pendingIO, title>>
rendererVars == <<markedText, fileName, displayFileName, saveStatus, listeners>>
vars         == <<browserWindows, allocated, openWindows, windowFilePaths,
                  dialog, pendingIO, title, toMain, toRenderer,
                  markedText, fileName, displayFileName, saveStatus, listeners>>

\* The title of a window before its rendering surface sets one, and of a
\* destroyed window.
NoTitle == <<>>

TitleSuffix == <<" ","-"," ","M","a","r","k","d","o","w","n"," ","E","d","i","t","o","r">>

\* `${displayFileName} - Markdown Editor`, App.jsx line 154.
TitleOf(name) == name \o TitleSuffix

\* A message from a rendering surface to the main process (preload.js 8-24).
Req(chan, content, defaultFileName, fullPath) ==
    [chan |-> chan, content |-> content,
     defaultFileName |-> defaultFileName, fullPath |-> fullPath, title |-> NoTitle]

\* api.updateWindowTitle(fullTitle), preload.js line 24.
TitleReq(fullTitle) ==
    [chan |-> "update-window-title", content |-> NoContent,
     defaultFileName |-> NoPath, fullPath |-> NoPath, title |-> fullTitle]

\* A message from the main process to a rendering surface (preload.js 29-55).
\* origin is the webContents whose request (or whose menu focus) produced it.
Msg(chan, content, status, fullPath, name, origin) ==
    [chan |-> chan, content |-> content, status |-> status,
     fullPath |-> fullPath, displayFileName |-> name, origin |-> origin]

\* A dispatched file operation: the closure of its callback.
IO(op, window, filePath, content, origin) ==
    [op |-> op, window |-> window, filePath |-> filePath,
     content |-> content, origin |-> origin]

NoDialog == [kind |-> "none", window |-> NoWindow, content |-> NoContent, origin |-> NoWindow]

SumLen(q) == Len(q["w1"]) + Len(q["w2"])

\* Everything in flight: queued messages, the open dialog, pending file operations.
InFlight ==
    SumLen(toMain) + SumLen(toRenderer) + BagCardinality(pendingIO)
        + (IF dialog.kind = "none" THEN 0 ELSE 1)

\* BrowserWindow.fromWebContents(event.sender)
FromWebContents(sender) ==
    IF sender \in browserWindows THEN sender ELSE NoWindow

\* window.webContents.send(...): the rendering surfaces that receive the message.
RecipientsBroadcast(window) == browserWindows
Recipients(window) == {window}

Send(window, msg) ==
    toRenderer' = [w \in Win |-> IF w \in Recipients(window)
                                 THEN Append(toRenderer[w], msg)
                                 ELSE toRenderer[w]]

\* The channels a rendering surface listens on (preload.js 29-55).
Channels == {"file-content-ready", "save-status",
             "menu-open-file", "menu-save-file", "menu-export-html"}

\* The handlers one run of the listener effect creates (App.jsx 107-130):
\* closures over the text, path and display name of the render they belong to.
Handlers(text, path, name) == [text |-> text, path |-> path, name |-> name]

NoListeners == [c \in Channels |-> <<>>]

\* ipcRenderer.on(channel, ...) in each api.on... (preload.js 29-55), called
\* once per channel by the effect (App.jsx 134-140).
RegisterListeners(ls, h) == [c \in Channels |-> Append(ls[c], h)]

\* removeFileListeners (preload.js 60-67): removeAllListeners per channel.
removeFileListenersKeepsMenu(ls) ==
    [c \in Channels |-> IF c \in {"file-content-ready", "save-status"} THEN <<>> ELSE ls[c]]
removeFileListeners(ls) == [c \in Channels |-> <<>>]

\* The document state a rendering surface mounts with (App.jsx 51-61).
InitialText       == DefaultMarkdown
InitialFileName   == NoPath
InitialDisplay    == Untitled

Init ==
    /\ browserWindows  = {"w1"}
    /\ allocated       = {"w1"}
    /\ openWindows     = {"w1"}
    /\ windowFilePaths = [w \in Win |-> NoPath]
    /\ dialog          = NoDialog
    /\ pendingIO       = EmptyBag
    /\ title           = [w \in Win |-> NoTitle]
    /\ toMain          = [w \in Win |-> IF w = "w1"
                                         THEN <<TitleReq(TitleOf(InitialDisplay))>>
                                         ELSE <<>>]
    /\ toRenderer      = [w \in Win |-> <<>>]
    /\ markedText      = [w \in Win |-> InitialText]
    /\ fileName        = [w \in Win |-> InitialFileName]
    /\ displayFileName = [w \in Win |-> InitialDisplay]
    /\ saveStatus      = [w \in Win |-> Shown(NoStatus)]
    /\ listeners       = [w \in Win |->
                              IF w = "w1"
                              THEN RegisterListeners(NoListeners,
                                       Handlers(InitialText, InitialFileName, InitialDisplay))
                              ELSE NoListeners]

Set(f, w, v) == [f EXCEPT ![w] = v]

\* The title effect of the rendering surface of w (App.jsx 150-158) after a
\* render: when the display name changed, it sends the new title.  queue is
\* toMain as the rest of the step leaves it.
TitleEffect(w, queue) ==
    toMain' = IF displayFileName'[w] # displayFileName[w]
              THEN Set(queue, w, Append(queue[w], TitleReq(TitleOf(displayFileName'[w]))))
              ELSE queue

\* The listener effect of the rendering surface of w (App.jsx 105-147) after
\* a render: when text, path or display name changed, saveFileDialog or
\* exportHtmlDialog is a new callback, so the cleanup of the previous run
\* removes the listeners and the effect registers the new handlers.
ListenerEffect(w) ==
    listeners' =
        Set(listeners, w,
            IF Handlers(markedText'[w], fileName'[w], displayFileName'[w])
                   # Handlers(markedText[w], fileName[w], displayFileName[w])
            THEN RegisterListeners(removeFileListeners(listeners[w]),
                     Handlers(markedText'[w], fileName'[w], displayFileName'[w]))
            ELSE listeners[w])

(* ------------------------------------------------------------------ *)
(* The rendering surface (App.jsx 31-282)                             *)
(* ------------------------------------------------------------------ *)

\* htmlMarkup: the effect of lines 164-168 keeps it marked.parse(markedText).
htmlMarkupSource(w) == Markdown(markedText[w])
htmlMarkup(w) == MarkedParse(markedText[w])

\* openFileDialog, lines 66-70.
openFileDialog(w) ==
    /\ saveStatus' = Set(saveStatus, w, Shown(Status("Opening file dialog...", <<>>)))
    /\ toMain' = Set(toMain, w,
                     Append(toMain[w], Req("open-file-dialog", NoContent, NoPath, NoPath)))
    /\ UNCHANGED <<markedText, fileName, displayFileName, listeners>>

\* The request saveFileDialog sends, lines 76-82.
SaveRequestAlwaysSaveAs(text, path, name) ==
    Req("save-file-request", Markdown(text), name, NoPath)
SaveRequestAlwaysOverwrite(text, path, name) ==
    Req("overwrite-file-request", Markdown(text), NoPath, path)
SaveRequest(text, path, name) ==
    IF path # NoPath
    THEN Req("overwrite-file-request", Markdown(text), NoPath, path)
    ELSE Req("save-file-request", Markdown(text), name, NoPath)

\* saveFileDialog, lines 73-83.
saveFileDialog(w) ==
    /\ saveStatus' = Set(saveStatus, w, Shown(Status("Saving...", <<>>)))
    /\ toMain' = Set(toMain, w,
                     Append(toMain[w],
                            SaveRequest(markedText[w], fileName[w], displayFileName[w])))
    /\ UNCHANGED <<markedText, fileName, displayFileName, listeners>>

\* The request exportHtmlDialog sends, lines 89-92.
ExportRequest(html, name) ==
    Req("save-file-request", html, DefaultExportName(name), NoPath)

\* exportHtmlDialog, lines 86-93.
exportHtmlDialog(w) ==
    /\ saveStatus' = Set(saveStatus, w, Shown(Status("Exporting HTML...", <<>>)))
    /\ toMain' = Set(toMain, w,
                     Append(toMain[w], ExportRequest(htmlMarkup(w), displayFileName[w])))
    /\ UNCHANGED <<markedText, fileName, displayFileName, listeners>>

\* handleNewWindow, lines 96-100.
handleNewWindow(w) ==
    /\ saveStatus' = Set(saveStatus, w, Shown(Status("Opening new editor window...", <<>>)))
    /\ toMain' = Set(toMain, w,
                     Append(toMain[w], Req("new-window-request", NoContent, NoPath, NoPath)))
    /\ UNCHANGED <<markedText, fileName, displayFileName, listeners>>

\* handleFileContent, lines 107-113.
handleFileContent(w, m) ==
    /\ markedText' = Set(markedText, w, m.content.text)
    /\ fileName' = Set(fileName, w, m.fullPath)
    /\ displayFileName' = Set(displayFileName, w, m.displayFileName)
    /\ saveStatus' = Set(saveStatus, w, Shown(Status("File \"%\" loaded.", m.displayFileName)))
    /\ ListenerEffect(w)
    /\ TitleEffect(w, toMain)

\* The path and display name handleSaveStatus leaves, lines 121-124.
AfterSaveStatusIgnoresPath(path, name, m) == <<path, name>>
AfterSaveStatus(path, name, m) ==
    IF m.fullPath # NoPath THEN <<m.fullPath, m.displayFileName>> ELSE <<path, name>>

\* handleSaveStatus, lines 116-125.
handleSaveStatus(w, m) ==
    /\ saveStatus' = Set(saveStatus, w, Shown(m.status))
    /\ fileName' = Set(fileName, w, AfterSaveStatus(fileName[w], displayFileName[w], m)[1])
    /\ displayFileName' =
           Set(displayFileName, w, AfterSaveStatus(fileName[w], displayFileName[w], m)[2])
    /\ UNCHANGED markedText
    /\ ListenerEffect(w)
    /\ TitleEffect(w, toMain)

\* The buttons are disabled while isSaving (lines 195, 213-247).
ButtonEnabled(w) == w \in browserWindows /\ saveStatus[w] # "saving"

ClickOpenFile(w) ==
    /\ ButtonEnabled(w)
    /\ InFlight < MaxInFlight
    /\ openFileDialog(w)
    /\ UNCHANGED <<mainVars, toRenderer>>

ClickSave(w) ==
    /\ ButtonEnabled(w)
    /\ InFlight < MaxInFlight
    /\ saveFileDialog(w)
    /\ UNCHANGED <<mainVars, toRenderer>>

ClickExportHtml(w) ==
    /\ ButtonEnabled(w)
    /\ InFlight < MaxInFlight
    /\ exportHtmlDialog(w)
    /\ UNCHANGED <<mainVars, toRenderer>>

ClickNewWindow(w) ==
    /\ ButtonEnabled(w)
    /\ InFlight < MaxInFlight
    /\ handleNewWindow(w)
    /\ UNCHANGED <<mainVars, toRenderer>>

\* clearEditor, lines 170-175: the New Document button.
clearEditorKeepsPath(w) ==
    /\ ButtonEnabled(w)
    /\ displayFileName[w] # Untitled => InFlight < MaxInFlight
    /\ markedText' = Set(markedText, w, DefaultMarkdown)
    /\ displayFileName' = Set(displayFileName, w, Untitled)
    /\ saveStatus' = Set(saveStatus, w, Shown(Status("Editor reset.", <<>>)))
    /\ UNCHANGED fileName
    /\ ListenerEffect(w)
    /\ TitleEffect(w, toMain)
    /\ UNCHANGED <<mainVars, toRenderer>>
clearEditor(w) ==
    /\ ButtonEnabled(w)
    /\ displayFileName[w] # Untitled => InFlight < MaxInFlight
    /\ markedText' = Set(markedText, w, DefaultMarkdown)
    /\ fileName' = Set(fileName, w, NoPath)
    /\ displayFileName' = Set(displayFileName, w, Untitled)
    /\ saveStatus' = Set(saveStatus, w, Shown(Status("Editor reset.", <<>>)))
    /\ ListenerEffect(w)
    /\ TitleEffect(w, toMain)
    /\ UNCHANGED <<mainVars, toRenderer>>

\* The textarea's onChange, line 259.
TypeText(w, t) ==
    /\ w \in browserWindows
    /\ markedText[w] # t
    /\ markedText' = Set(markedText, w, t)
    /\ UNCHANGED <<mainVars, toMain, toRenderer, fileName, displayFileName, saveStatus>>
    /\ ListenerEffect(w)

\* The three-second timer of lines 178-186.
StatusTimer(w) ==
    /\ w \in browserWindows
    /\ saveStatus' = Set(saveStatus, w, Shown(NoStatus))
    /\ UNCHANGED <<mainVars, toMain, toRenderer, markedText, fileName, displayFileName,
                   listeners>>

\* The next message the rendering surface of w handles.
Incoming(w, chan) ==
    /\ w \in browserWindows
    /\ toRenderer[w] # <<>>
    /\ Head(toRenderer[w]).chan = chan
    /\ toRenderer' = Set(toRenderer, w, Tail(toRenderer[w]))

\* api.onFileContentReady(handleFileContent), line 134: every listener of
\* the channel runs handleFileContent (the setters make a repeat idempotent);
\* with no listener the message is dropped.
OnFileContentReady(w) ==
    /\ Incoming(w, "file-content-ready")
    /\ IF listeners[w]["file-content-ready"] # <<>>
       THEN handleFileContent(w, Head(toRenderer[w]))
       ELSE UNCHANGED <<rendererVars, toMain>>
    /\ UNCHANGED mainVars

\* api.onSaveStatus(handleSaveStatus), line 135.
OnSaveStatus(w) ==
    /\ Incoming(w, "save-status")
    /\ IF listeners[w]["save-status"] # <<>>
       THEN handleSaveStatus(w, Head(toRenderer[w]))
       ELSE UNCHANGED <<rendererVars, toMain>>
    /\ UNCHANGED mainVars

\* A menu message runs every listener of its channel: each is the handler
\* of one effect run and sends the request its closure makes; requests are
\* those requests, in the order of the listeners.
RunMenuHandlers(w, status, requests) ==
    /\ saveStatus' = IF requests # <<>> THEN Set(saveStatus, w, Shown(status)) ELSE saveStatus
    /\ toMain' = Set(toMain, w, toMain[w] \o requests)
    /\ UNCHANGED <<markedText, fileName, displayFileName, listeners>>

\* handleMenuOpen = () => openFileDialog(), line 128.
handleMenuOpen(w) ==
    LET ls == listeners[w]["menu-open-file"]
    IN  RunMenuHandlers(w, Status("Opening file dialog...", <<>>),
            [i \in 1..Len(ls) |-> Req("open-file-dialog", NoContent, NoPath, NoPath)])

\* handleMenuSave = () => saveFileDialog(), line 129.
handleMenuSave(w) ==
    LET ls == listeners[w]["menu-save-file"]
    IN  RunMenuHandlers(w, Status("Saving...", <<>>),
            [i \in 1..Len(ls) |-> SaveRequest(ls[i].text, ls[i].path, ls[i].name)])

\* handleMenuExport = () => exportHtmlDialog(), line 130; the htmlMarkup in
\* the closure is marked.parse of the closure's text (lines 164-168).
handleMenuExport(w) ==
    LET ls == listeners[w]["menu-export-html"]
    IN  RunMenuHandlers(w, Status("Exporting HTML...", <<>>),
            [i \in 1..Len(ls) |-> ExportRequest(MarkedParse(ls[i].text), ls[i].name)])

\* api.onMenuOpenFile(handleMenuOpen), line 138.
OnMenuOpenFile(w) ==
    /\ Incoming(w, "menu-open-file")
    /\ handleMenuOpen(w)
    /\ UNCHANGED mainVars

\* api.onMenuSaveFile(handleMenuSave), line 139.
OnMenuSaveFile(w) ==
    /\ Incoming(w, "menu-save-file")
    /\ handleMenuSave(w)
    /\ UNCHANGED mainVars

\* api.onMenuExportHtml(handleMenuExport), line 140.
OnMenuExportHtml(w) ==
    /\ Incoming(w, "menu-export-html")
    /\ handleMenuExport(w)
    /\ UNCHANGED mainVars

(* ------------------------------------------------------------------ *)
(* The main process (App.jsx 286-599)                                 *)
(* ------------------------------------------------------------------ *)

\* The main process runs one handler at a time, and none while a
\* dialog.show...Sync call blocks it (lines 381 and 428).
MainIdle == dialog.kind = "none"

\* The next message of sender s the main process handles.
Received(s, chan) ==
    /\ MainIdle
    /\ toMain[s] # <<>>
    /\ Head(toMain[s]).chan = chan
    /\ toMain' = Set(toMain, s, Tail(toMain[s]))

\* The text a newly mounted rendering surface shows (line 51).
MountTextCopies(w) ==
    IF browserWindows # {} THEN markedText[CHOOSE v \in browserWindows : TRUE]
    ELSE InitialText
MountText(w) == InitialText

\* createWindow, lines 305-338, for the new BrowserWindow object w, and the
\* mount of its rendering surface (lines 51-61), whose effects register the
\* listeners (lines 134-140) and send the first title (lines 150-158).  queue
\* is toMain as the rest of the step leaves it.
createWindow(w, queue) ==
    /\ w \in Win \ allocated
    /\ title' = Set(title, w, NoTitle)
    /\ toMain' = Set(queue, w, Append(queue[w], TitleReq(TitleOf(InitialDisplay))))
    /\ allocated' = allocated \cup {w}
    /\ browserWindows' = browserWindows \cup {w}
    /\ openWindows' = openWindows \cup {w}
    /\ toRenderer' = Set(toRenderer, w, <<>>)
    /\ markedText' = Set(markedText, w, MountText(w))
    /\ fileName' = Set(fileName, w, InitialFileName)
    /\ displayFileName' = Set(displayFileName, w, InitialDisplay)
    /\ saveStatus' = Set(saveStatus, w, Shown(NoStatus))
    /\ listeners' = Set(listeners, w,
                        RegisterListeners(NoListeners,
                            Handlers(MountText(w), InitialFileName, InitialDisplay)))
    /\ UNCHANGED <<windowFilePaths, dialog, pendingIO>>

\* What the 'closed' handler leaves of openWindows, lines 330-332.
AfterClosedKeeps(set, w) == set
AfterClosed(set, w) == set \ {w}

\* The user closes window w: the runtime destroys it and its rendering
\* surface, then emits 'closed'.  The handler of lines 330-332 does not touch
\* windowFilePaths.
WindowClosed(w) ==
    /\ MainIdle
    /\ w \in browserWindows
    /\ browserWindows' = browserWindows \ {w}
    /\ openWindows' = AfterClosed(openWindows, w)
    /\ toRenderer' = Set(toRenderer, w, <<>>)
    /\ markedText' = Set(markedText, w, InitialText)
    /\ fileName' = Set(fileName, w, InitialFileName)
    /\ displayFileName' = Set(displayFileName, w, InitialDisplay)
    /\ saveStatus' = Set(saveStatus, w, Shown(NoStatus))
    /\ listeners' = Set(listeners, w, NoListeners)
    /\ title' = Set(title, w, NoTitle)
    /\ UNCHANGED <<allocated, windowFilePaths, dialog, pendingIO, toMain>>

\* A destroyed window object nothing refers to any more is collected, and
\* with it its WeakMap entry (line 299); its identity can then be reused.
Referenced(w) ==
    \/ w \in browserWindows
    \/ toMain[w] # <<>>
    \/ \E op \in BagToSet(pendingIO) : op.window = w

CollectGarbage(w) ==
    /\ w \in allocated
    /\ ~Referenced(w)
    /\ allocated' = allocated \ {w}
    /\ windowFilePaths' = Set(windowFilePaths, w, NoPath)
    /\ UNCHANGED <<browserWindows, openWindows, dialog, pendingIO, title,
                   toMain, toRenderer, rendererVars>>

\* app.on('activate', ...), lines 585-589.
Activate ==
    /\ MainIdle
    /\ IF browserWindows = {}
       THEN InFlight < MaxInFlight /\ \E w \in Win : createWindow(w, toMain)
       ELSE UNCHANGED vars

\* ipcMain.on('new-window-request', ...), lines 360-362.
IpcNewWindowRequest(s) ==
    /\ MainIdle
    /\ toMain[s] # <<>>
    /\ Head(toMain[s]).chan = "new-window-request"
    /\ \E w \in Win : createWindow(w, Set(toMain, s, Tail(toMain[s])))

\* The titles after window.setTitle(title), line 369.
TitlesAfterSetsAll(window, fullTitle) == [w \in Win |-> fullTitle]
TitlesAfter(window, fullTitle) == Set(title, window, fullTitle)

\* ipcMain.on('update-window-title', ...), lines 365-371.
IpcUpdateWindowTitle(s) ==
    /\ Received(s, "update-window-title")
    /\ LET window == FromWebContents(s)
       IN  title' = IF window = NoWindow THEN title
                    ELSE TitlesAfter(window, Head(toMain[s]).title)
    /\ UNCHANGED <<browserWindows, allocated, openWindows, windowFilePaths,
                   dialog, pendingIO, toRenderer, rendererVars>>

\* ipcMain.on('open-file-dialog', ...) and getFileFromUser up to the dialog,
\* lines 345-347 and 378-389.
IpcOpenFileDialog(s) ==
    /\ Received(s, "open-file-dialog")
    /\ LET window == FromWebContents(s)
       IN  dialog' = IF window = NoWindow THEN NoDialog
                     ELSE [kind |-> "open", window |-> window, content |-> NoContent,
                           origin |-> s]
    /\ UNCHANGED <<browserWindows, allocated, openWindows, windowFilePaths,
                   pendingIO, title, toRenderer, rendererVars>>

\* showOpenDialogSync returns files; getFileFromUser lines 391-394 and the
\* dispatch of openFile, line 403.  FilesToOpen: the file openFile is called
\* with, none when the dialog was cancelled (line 391).
FilesToOpenOrDefault(files) == IF Len(files) > 0 THEN {files[1]} ELSE {PathReport}
FilesToOpen(files) == IF Len(files) > 0 THEN {files[1]} ELSE {}

OpenDialogReturns(files) ==
    /\ dialog.kind = "open"
    /\ dialog' = NoDialog
    /\ pendingIO' = pendingIO (+) SetToBag({IO("read", dialog.window, f,
                                               NoContent, dialog.origin) :
                                            f \in FilesToOpen(files)})
    /\ UNCHANGED <<browserWindows, allocated, openWindows, windowFilePaths, title,
                   toMain, toRenderer, rendererVars>>

\* ipcMain.on('save-file-request', ...) and saveFileToUser up to the dialog,
\* lines 350-352 and 425-436.
IpcSaveFileRequest(s) ==
    /\ Received(s, "save-file-request")
    /\ LET window == FromWebContents(s)
       IN  dialog' = IF window = NoWindow THEN NoDialog
                     ELSE [kind |-> "save", window |-> window,
                           content |-> Head(toMain[s]).content, origin |-> s]
    /\ UNCHANGED <<browserWindows, allocated, openWindows, windowFilePaths,
                   pendingIO, title, toRenderer, rendererVars>>

\* The status sent when the save dialog is cancelled, line 453.
CancelledMsgWithPath(origin) ==
    Msg("save-status", NoContent, Status("Save As operation cancelled.", <<>>),
        PathReport, Untitled, origin)
CancelledMsg(origin) ==
    Msg("save-status", NoContent, Status("Save As operation cancelled.", <<>>),
        NoPath, NoPath, origin)

\* showSaveDialogSync returns filePath; saveFileToUser lines 438-454.
SaveDialogReturns(filePath) ==
    /\ dialog.kind = "save"
    /\ dialog' = NoDialog
    /\ IF filePath # NoPath
       THEN /\ pendingIO' = pendingIO (+) SetToBag({IO("saveas", dialog.window, filePath,
                                                       dialog.content, dialog.origin)})
            /\ UNCHANGED toRenderer
       ELSE /\ Send(dialog.window, CancelledMsg(dialog.origin))
            /\ UNCHANGED pendingIO
    /\ UNCHANGED <<browserWindows, allocated, openWindows, windowFilePaths, title,
                   toMain, rendererVars>>

\* ipcMain.on('overwrite-file-request', ...) and overwriteFile up to the
\* dispatch of the write, lines 355-357 and 463-466.
IpcOverwriteFileRequest(s) ==
    /\ Received(s, "overwrite-file-request")
    /\ LET window == FromWebContents(s)
           req    == Head(toMain[s])
       IN  pendingIO' = IF window = NoWindow THEN pendingIO
                        ELSE pendingIO (+) SetToBag({IO("overwrite", window, req.fullPath,
                                                        req.content, s)})
    /\ UNCHANGED <<browserWindows, allocated, openWindows, windowFilePaths, title,
                   dialog, toRenderer, rendererVars>>

\* window.webContents.send from a file callback: window.webContents of a
\* destroyed window throws, the exception escapes the callback and nothing
\* is sent.
SendFromCallback(window, msg) ==
    IF window \in browserWindows
    THEN Send(window, msg)
    ELSE UNCHANGED toRenderer

\* A file callback of the main process starts: the operation completed.
CompletesLeavesPending(op, kind) ==
    /\ MainIdle
    /\ BagIn(op, pendingIO)
    /\ op.op = kind
    /\ pendingIO' = pendingIO
Completes(op, kind) ==
    /\ MainIdle
    /\ BagIn(op, pendingIO)
    /\ op.op = kind
    /\ pendingIO' = pendingIO (-) SetToBag({op})

\* windowFilePaths.set(window, filePath), lines 411 and 446.
BindingsAfterSuccessAll(op) == [w \in Win |-> IF w \in browserWindows THEN op.filePath
                                              ELSE windowFilePaths[w]]
BindingsAfterSuccessNone(op) == windowFilePaths
BindingsAfterSuccess(op) == Set(windowFilePaths, op.window, op.filePath)

\* The message of a successful read, lines 414-415.
ContentReadyMsgFullPathName(op, data) ==
    Msg("file-content-ready", Markdown(data), NoStatus, op.filePath, op.filePath, op.origin)
ContentReadyMsg(op, data) ==
    Msg("file-content-ready", Markdown(data), NoStatus,
        op.filePath, Basename(op.filePath), op.origin)

\* The message of a failed read or write, lines 406, 443 and 469.
ErrorMsgWithPath(op, text) ==
    Msg("save-status", NoContent, Status(text, ErrMessage),
        op.filePath, Basename(op.filePath), op.origin)
ErrorMsgAsContent(op, text) ==
    Msg("file-content-ready", Markdown(""), Status(text, ErrMessage),
        NoPath, NoPath, op.origin)
ErrorMsg(op, text) ==
    Msg("save-status", NoContent, Status(text, ErrMessage), NoPath, NoPath, op.origin)

\* The message of a successful save-as, lines 447-448.
SavedAsMsg(op) ==
    Msg("save-status", NoContent,
        Status("File successfully saved as \"%\"", Basename(op.filePath)),
        op.filePath, Basename(op.filePath), op.origin)

\* The message of a successful overwrite, lines 472-473.
OverwrittenMsgFullPath(op) ==
    Msg("save-status", NoContent,
        Status("File successfully saved to \"%\"", op.filePath),
        NoPath, NoPath, op.origin)
OverwrittenMsg(op) ==
    Msg("save-status", NoContent,
        Status("File successfully saved to \"%\"", Basename(op.filePath)),
        NoPath, NoPath, op.origin)

\* The callback of fs.readFile in openFile, lines 403-416.
ReadFileCallback(op, err, data) ==
    /\ Completes(op, "read")
    /\ IF err
       THEN /\ SendFromCallback(op.window, ErrorMsg(op, "Error loading file: %"))
            /\ UNCHANGED windowFilePaths
       ELSE /\ windowFilePaths' = BindingsAfterSuccess(op)
            /\ SendFromCallback(op.window, ContentReadyMsg(op, data))
    /\ UNCHANGED <<browserWindows, allocated, openWindows, dialog, title, toMain, rendererVars>>

\* The callback of fs.writeFile in saveFileToUser, lines 440-450.
SaveWriteCallback(op, err) ==
    /\ Completes(op, "saveas")
    /\ IF err
       THEN /\ SendFromCallback(op.window, ErrorMsg(op, "Error saving file: %"))
            /\ UNCHANGED windowFilePaths
       ELSE /\ windowFilePaths' = BindingsAfterSuccess(op)
            /\ SendFromCallback(op.window, SavedAsMsg(op))
    /\ UNCHANGED <<browserWindows, allocated, openWindows, dialog, title, toMain, rendererVars>>

\* The callback of fs.writeFile in overwriteFile, lines 466-475.
OverwriteCallback(op, err) ==
    /\ Completes(op, "overwrite")
    /\ IF err
       THEN SendFromCallback(op.window, ErrorMsg(op, "Error overwriting file: %"))
       ELSE SendFromCallback(op.window, OverwrittenMsg(op))
    /\ UNCHANGED <<browserWindows, allocated, openWindows, windowFilePaths, title,
                   dialog, toMain, rendererVars>>

\* The click handlers of the File menu, lines 489-519.
MenuItems == {"menu-open-file", "menu-save-file", "menu-export-html"}

\* focusedWindow.webContents.send('menu-...'), lines 495, 505 and 516.
MenuMsgAlwaysSave(item, focusedWindow) ==
    Msg("menu-save-file", NoContent, NoStatus, NoPath, NoPath, focusedWindow)
MenuMsg(item, focusedWindow) ==
    Msg(item, NoContent, NoStatus, NoPath, NoPath, focusedWindow)

MenuClick(item, focusedWindow) ==
    /\ MainIdle
    /\ InFlight < MaxInFlight
    /\ IF focusedWindow # NoWindow
       THEN Send(focusedWindow, MenuMsg(item, focusedWindow))
       ELSE UNCHANGED toRenderer
    /\ UNCHANGED <<mainVars, toMain, rendererVars>>

(* ------------------------------------------------------------------ *)
(* Specification                                                      *)
(* ------------------------------------------------------------------ *)

Next ==
    \/ \E w \in Win : ClickOpenFile(w)
    \/ \E w \in Win : ClickSave(w)
    \/ \E w \in Win : ClickExportHtml(w)
    \/ \E w \in Win : ClickNewWindow(w)
    \/ \E w \in Win : clearEditor(w)
    \/ \E w \in Win, t \in Texts \ FileTexts : TypeText(w, t)
    \/ \E w \in Win : StatusTimer(w)
    \/ \E w \in Win : OnFileContentReady(w)
    \/ \E w \in Win : OnSaveStatus(w)
    \/ \E w \in Win : OnMenuOpenFile(w)
    \/ \E w \in Win : OnMenuSaveFile(w)
    \/ \E w \in Win : OnMenuExportHtml(w)
    \/ \E w \in Win : WindowClosed(w)
    \/ \E w \in Win : CollectGarbage(w)
    \/ Activate
    \/ \E s \in Win : IpcNewWindowRequest(s)
    \/ \E s \in Win : IpcUpdateWindowTitle(s)
    \/ \E s \in Win : IpcOpenFileDialog(s)
    \/ \E files \in {<<>>} \cup {<<p>> : p \in Paths} : OpenDialogReturns(files)
    \/ \E s \in Win : IpcSaveFileRequest(s)
    \/ \E filePath \in {NoPath} \cup Paths : SaveDialogReturns(filePath)
    \/ \E s \in Win : IpcOverwriteFileRequest(s)
    \/ \E op \in BagToSet(pendingIO), err \in BOOLEAN, data \in FileTexts :
           ReadFileCallback(op, err, data)
    \/ \E op \in BagToSet(pendingIO), err \in BOOLEAN : SaveWriteCallback(op, err)
    \/ \E op \in BagToSet(pendingIO), err \in BOOLEAN : OverwriteCallback(op, err)
    \/ \E item \in MenuItems, focusedWindow \in browserWindows \cup {NoWindow} :
           MenuClick(item, focusedWindow)

Spec == Init /\ [][Next]_vars

(* ------------------------------------------------------------------ *)
(* Properties                                                         *)
(* ------------------------------------------------------------------ *)

\* A contentReady or statusUpdate event.
IsEvent(m) == m.chan \in {"file-content-ready", "save-status"}


\* name is the final segment of path: path is some directory, "/", name.
FinalSegment(path, name) ==
    /\ ~Includes(name, <<"/">>)
    /\ Len(path) > Len(name)
    /\ SubSeq(path, Len(path) - Len(name), Len(path)) = <<"/">> \o name

\* The step sends window w exactly the one event m and no other window anything.
SendsOnly(w, m) ==
    /\ toRenderer'[w] = Append(toRenderer[w], m)
    /\ \A v \in Win \ {w} : toRenderer'[v] = toRenderer[v]

\* The step is a Save in w, by the button or by the menu.
SaveIn(w) == ClickSave(w) \/ OnMenuSaveFile(w)

\* The step is an Export HTML in w, by the button or by the menu.
ExportIn(w) == ClickExportHtml(w) \/ OnMenuExportHtml(w)

\* The request the step has w send.
Requested(w) == toMain'[w][Len(toMain'[w])]

ReportMd       == <<"r","e","p","o","r","t",".","m","d">>
ReportHtml     == <<"r","e","p","o","r","t",".","h","t","m","l">>
NotesMARKDOWN  == <<"N","o","t","e","s",".","M","A","R","K","D","O","W","N">>
NotesHtml      == <<"N","o","t","e","s",".","h","t","m","l">>
NotesLowerHtml == <<"n","o","t","e","s",".","h","t","m","l">>

\* C1: every contentReady or statusUpdate event queued for, and so every one
\* handled by, a window was produced by a request of that same window: no
\* event of one window's request is ever delivered to another window.
C1_EventsOnlyToRequester ==
    \A w \in Win : \A i \in 1..Len(toRenderer[w]) :
        IsEvent(toRenderer[w][i]) =>
            /\ toRenderer[w][i].origin = w
            /\ w \in browserWindows

\* Both windows are open and each has an event of its own in flight.
C1_Witness ==
    /\ browserWindows = Win
    /\ \A w \in Win : toRenderer[w] # <<>> /\ IsEvent(Head(toRenderer[w]))

\* C2: handling contentReady stores its path P as the stored path of W; the
\* stored path then changes only when W handles another contentReady, handles
\* a status event carrying a path (the result of a save-as or export), or is
\* reset by New Document (or the window closes), so not by editing; and a
\* Save in W with stored path P sends exactly an overwrite request for P with
\* the current text, whose handling shows no dialog and dispatches a write to P.
C2_SaveAfterOpenOverwrites ==
    [][\A w \in Win :
        /\ OnFileContentReady(w) =>
               /\ Head(toRenderer[w]).fullPath \in Paths
               /\ fileName'[w] = Head(toRenderer[w]).fullPath
        /\ fileName'[w] # fileName[w] =>
               \/ OnFileContentReady(w)
               \/ OnSaveStatus(w) /\ Head(toRenderer[w]).fullPath # NoPath
               \/ clearEditor(w)
               \/ WindowClosed(w)
        /\ SaveIn(w) /\ fileName[w] # NoPath =>
               /\ toMain'[w] = Append(toMain[w], Requested(w))
               /\ Requested(w).chan = "overwrite-file-request"
               /\ Requested(w).fullPath = fileName[w]
               /\ Requested(w).content = Markdown(markedText[w])
               /\ dialog' = dialog /\ pendingIO' = pendingIO
        /\ IpcOverwriteFileRequest(w) /\ w \in browserWindows =>
               /\ dialog' = NoDialog
               /\ \E op \in BagToSet(pendingIO') :
                      /\ op.op = "overwrite" /\ op.window = w
                      /\ op.filePath = Head(toMain[w]).fullPath
                      /\ pendingIO' = pendingIO (+) SetToBag({op})
      ]_vars

\* Window w opened /d/report.md, the text was edited, and its Save is an
\* overwrite request for that path in flight.
C2_Witness ==
    \E w \in browserWindows :
        /\ windowFilePaths[w] = PathReport
        /\ fileName[w] = PathReport
        /\ markedText[w] = DefaultMarkdown
        /\ toMain[w] # <<>>
        /\ Head(toMain[w]) = Req("overwrite-file-request", Markdown(DefaultMarkdown),
                                 NoPath, PathReport)

\* C3: when the save dialog of window W is cancelled, no binding changes, no
\* write is dispatched, and exactly one status event goes to W and none to
\* any other window: 'Save As operation cancelled.' with no path and no
\* display name; handling it leaves W's stored path and display name as they were.
C3_CancelSaveAs ==
    [][/\ SaveDialogReturns(NoPath) =>
              /\ windowFilePaths' = windowFilePaths
              /\ pendingIO' = pendingIO
              /\ \E m \in {toRenderer'[dialog.window][Len(toRenderer'[dialog.window])]} :
                     /\ SendsOnly(dialog.window, m)
                     /\ m.chan = "save-status"
                     /\ m.status = Status("Save As operation cancelled.", <<>>)
                     /\ m.fullPath = NoPath
                     /\ m.displayFileName = NoPath
       /\ \A w \in Win :
              OnSaveStatus(w)
                  /\ Head(toRenderer[w]).status.text = "Save As operation cancelled." =>
                  /\ fileName'[w] = fileName[w]
                  /\ displayFileName'[w] = displayFileName[w]
      ]_vars

\* A window bound to a file has the cancellation event in flight, its binding kept.
C3_Witness ==
    \E w \in browserWindows :
        /\ windowFilePaths[w] # NoPath
        /\ fileName[w] = windowFilePaths[w]
        /\ toRenderer[w] # <<>>
        /\ Head(toRenderer[w]).status.text = "Save As operation cancelled."

\* C4, as stated: an export with display name report.md suggests report.html,
\* and one with display name Notes.MARKDOWN suggests notes.html.
C4_AsStated ==
    [][\A w \in Win :
        /\ ExportIn(w) /\ displayFileName[w] = ReportMd =>
               Requested(w).defaultFileName = ReportHtml
        /\ ExportIn(w) /\ displayFileName[w] = NotesMARKDOWN =>
               Requested(w).defaultFileName = NotesLowerHtml
      ]_vars

\* C4, amended: the suffix .md or .markdown is matched ignoring case and
\* replaced by .html, the rest of the name kept as it is: report.md gives
\* report.html and Notes.MARKDOWN gives Notes.html (Untitled.md, Untitled.html).
C4_ExportName ==
    [][\A w \in Win :
        ExportIn(w) =>
            /\ toMain'[w] = Append(toMain[w], Requested(w))
            /\ Requested(w).chan = "save-file-request"
            /\ displayFileName[w] = ReportMd => Requested(w).defaultFileName = ReportHtml
            /\ displayFileName[w] = NotesMARKDOWN => Requested(w).defaultFileName = NotesHtml
            /\ displayFileName[w] = Untitled =>
                   Requested(w).defaultFileName = <<"U","n","t","i","t","l","e","d">> \o DotHtml
      ]_vars

\* An export of a window showing Notes.MARKDOWN is in flight, suggesting Notes.html.
C4_Witness ==
    \E w \in browserWindows :
        /\ displayFileName[w] = NotesMARKDOWN
        /\ toMain[w] # <<>>
        /\ Head(toMain[w]).chan = "save-file-request"
        /\ Head(toMain[w]).content.fmt = "html"
        /\ Head(toMain[w]).defaultFileName = NotesHtml

\* A window as createWindow and the mount of its rendering surface leave it.
Fresh(w) ==
    /\ w \in openWindows
    /\ windowFilePaths[w] = NoPath
    /\ fileName[w] = NoPath
    /\ displayFileName[w] = Untitled
    /\ markedText[w] = DefaultMarkdown

\* C5: the window created at startup, and every window a step creates (on a
\* new-window request or on activation), is in the live-window set with no
\* binding, a null stored path, display name Untitled.md and the default
\* template as text; the step changes no other window's binding or document.
C5_NewWindowFresh ==
    /\ \A w \in browserWindows : Fresh(w)
    /\ [][\A w \in Win :
            w \notin browserWindows /\ w \in browserWindows' =>
                /\ Fresh(w)'
                /\ \A v \in Win \ {w} :
                       /\ windowFilePaths'[v] = windowFilePaths[v]
                       /\ markedText'[v] = markedText[v]
                       /\ fileName'[v] = fileName[v]
                       /\ displayFileName'[v] = displayFileName[v]
         ]_vars

\* A second window was created while the first is bound to a file and holds
\* another text; the new one is unbound, with the default template.
C5_Witness ==
    \E w, v \in browserWindows :
        /\ w # v
        /\ windowFilePaths[v] # NoPath
        /\ markedText[v] # DefaultMarkdown
        /\ fileName[v] # NoPath
        /\ Fresh(w)

\* C6, as stated: a closed window is not in the live-window set and no
\* binding for it remains in the registry.
C6_AsStated ==
    \A w \in Win :
        w \notin browserWindows =>
            /\ w \notin openWindows
            /\ windowFilePaths[w] = NoPath

\* C7: each window has at most one binding, a path; and a step changes the
\* binding of window W only as the callback of a read or save-as write that
\* W itself requested, to that operation's path and leaving every other
\* window's binding alone (or as the WeakMap dropping the entry of a
\* destroyed, collected window object).
C7_BindingOnlyByOwnCompletion ==
    /\ [](\A w \in Win : windowFilePaths[w] \in Paths \cup {NoPath})
    /\ [][\A w \in Win :
            windowFilePaths'[w] # windowFilePaths[w] =>
                \/ \E op \in BagToSet(pendingIO) :
                       /\ op.op \in {"read", "saveas"}
                       /\ op.window = w
                       /\ op.origin = w
                       /\ pendingIO' = pendingIO (-) SetToBag({op})
                       /\ windowFilePaths'[w] = op.filePath
                       /\ \A v \in Win \ {w} : windowFilePaths'[v] = windowFilePaths[v]
                \/ CollectGarbage(w)
         ]_vars

\* Both windows are open, each bound to its own file.
C7_Witness ==
    /\ browserWindows = Win
    /\ windowFilePaths["w1"] = PathReport
    /\ windowFilePaths["w2"] = PathNotes

\* The last message of the queue of window w after the step.
LastSent(w) == toRenderer'[w][Len(toRenderer'[w])]

\* C8: when the read of path P for an open window W succeeds, the binding of
\* W becomes P and exactly one event goes to W and none to any other window:
\* contentReady with the file text, the final segment of P as display name,
\* and P; handling it leaves W's text, display name and stored path those three.
C8_ReadSuccess ==
    [][/\ \A op \in BagToSet(pendingIO), data \in FileTexts :
              ReadFileCallback(op, FALSE, data) /\ op.window \in browserWindows =>
                  /\ windowFilePaths'[op.window] = op.filePath
                  /\ SendsOnly(op.window, LastSent(op.window))
                  /\ LastSent(op.window).chan = "file-content-ready"
                  /\ LastSent(op.window).content.text = data
                  /\ LastSent(op.window).fullPath = op.filePath
                  /\ FinalSegment(op.filePath, LastSent(op.window).displayFileName)
       /\ \A w \in Win :
              OnFileContentReady(w) =>
                  /\ markedText'[w] = Head(toRenderer[w]).content.text
                  /\ fileName'[w] = Head(toRenderer[w]).fullPath
                  /\ displayFileName'[w] = Head(toRenderer[w]).displayFileName
                  /\ FinalSegment(fileName'[w], displayFileName'[w])
      ]_vars

\* A window has handled the contentReady of /e/Notes.MARKDOWN.
C8_Witness ==
    \E w \in browserWindows :
        /\ windowFilePaths[w] = PathNotes
        /\ fileName[w] = PathNotes
        /\ displayFileName[w] = NotesMARKDOWN
        /\ markedText[w] \in FileTexts
        /\ toRenderer[w] = <<>>

ErrorTexts ==
    {"Error loading file: %", "Error saving file: %", "Error overwriting file: %"}

\* C9: when a read, a save-as write or an overwrite for an open window W
\* fails, no binding changes, nothing is dispatched again, and exactly one
\* event goes to W and none to any other window: a status with an error
\* message, no path and no display name; handling it leaves W's stored path
\* and display name as they were and sends no request.
C9_Failures ==
    [][/\ \A op \in BagToSet(pendingIO) :
              /\ op.window \in browserWindows
              /\ \/ \E data \in FileTexts : ReadFileCallback(op, TRUE, data)
                 \/ SaveWriteCallback(op, TRUE)
                 \/ OverwriteCallback(op, TRUE)
              => /\ windowFilePaths' = windowFilePaths
                 /\ pendingIO' = pendingIO (-) SetToBag({op})
                 /\ toMain' = toMain
                 /\ op.origin = op.window
                 /\ SendsOnly(op.window, LastSent(op.window))
                 /\ LastSent(op.window).chan = "save-status"
                 /\ LastSent(op.window).status.text \in ErrorTexts
                 /\ LastSent(op.window).status.arg = ErrMessage
                 /\ LastSent(op.window).fullPath = NoPath
                 /\ LastSent(op.window).displayFileName = NoPath
       /\ \A w \in Win :
              OnSaveStatus(w) /\ Head(toRenderer[w]).status.text \in ErrorTexts =>
                  /\ fileName'[w] = fileName[w]
                  /\ displayFileName'[w] = displayFileName[w]
                  /\ toMain' = toMain
      ]_vars

\* A window bound to a file has an error status in flight, binding and stored path kept.
C9_Witness ==
    \E w \in browserWindows :
        /\ windowFilePaths[w] # NoPath
        /\ fileName[w] = windowFilePaths[w]
        /\ toRenderer[w] # <<>>
        /\ Head(toRenderer[w]).status.text \in ErrorTexts

\* C10: when the save-as write to the chosen path P for an open window W
\* succeeds, the binding of W becomes P and exactly one event goes to W and
\* none to any other window: a status with the success message, P, and the
\* final segment of P as display name; handling it makes P the stored path,
\* and a Save with stored path P sends an overwrite request for P.
C10_SaveAsSuccess ==
    [][/\ \A op \in BagToSet(pendingIO) :
              SaveWriteCallback(op, FALSE) /\ op.window \in browserWindows =>
                  /\ windowFilePaths'[op.window] = op.filePath
                  /\ SendsOnly(op.window, LastSent(op.window))
                  /\ LastSent(op.window).chan = "save-status"
                  /\ LastSent(op.window).status.text = "File successfully saved as \"%\""
                  /\ LastSent(op.window).status.arg = LastSent(op.window).displayFileName
                  /\ LastSent(op.window).fullPath = op.filePath
                  /\ FinalSegment(op.filePath, LastSent(op.window).displayFileName)
       /\ \A w \in Win :
              /\ OnSaveStatus(w) /\ Head(toRenderer[w]).fullPath # NoPath =>
                     /\ fileName'[w] = Head(toRenderer[w]).fullPath
                     /\ displayFileName'[w] = Head(toRenderer[w]).displayFileName
              /\ SaveIn(w) /\ fileName[w] # NoPath =>
                     /\ Requested(w).chan = "overwrite-file-request"
                     /\ Requested(w).fullPath = fileName[w]
      ]_vars

\* A window with no file saved its document as /e/Notes.MARKDOWN, handled the
\* status, and its next Save is an overwrite request for that path in flight.
C10_Witness ==
    \E w \in browserWindows :
        /\ windowFilePaths[w] = PathNotes
        /\ fileName[w] = PathNotes
        /\ displayFileName[w] = NotesMARKDOWN
        /\ markedText[w] = DefaultMarkdown
        /\ toMain[w] # <<>>
        /\ Head(toMain[w]).chan = "overwrite-file-request"
        /\ Head(toMain[w]).fullPath = PathNotes

\* C11: handling an overwrite request of an open window W shows no dialog and
\* dispatches one write, to the path of the request with its content; the
\* callback of an overwrite, failed or not, changes no window's binding; on
\* success exactly one status event goes to W and none to any other window,
\* with no path and no display name, its message naming the final segment of
\* the path; handling it leaves W's stored path and display name as they were.
C11_Overwrite ==
    [][/\ \A w \in Win :
              IpcOverwriteFileRequest(w) /\ w \in browserWindows =>
                  /\ dialog = NoDialog /\ dialog' = NoDialog
                  /\ windowFilePaths' = windowFilePaths
                  /\ toRenderer' = toRenderer
                  /\ pendingIO' = pendingIO (+)
                         SetToBag({IO("overwrite", w, Head(toMain[w]).fullPath,
                                      Head(toMain[w]).content, w)})
       /\ \A op \in BagToSet(pendingIO), err \in BOOLEAN :
              OverwriteCallback(op, err) => windowFilePaths' = windowFilePaths
       /\ \A op \in BagToSet(pendingIO) :
              OverwriteCallback(op, FALSE) /\ op.window \in browserWindows =>
                  /\ SendsOnly(op.window, LastSent(op.window))
                  /\ LastSent(op.window).chan = "save-status"
                  /\ LastSent(op.window).status.text = "File successfully saved to \"%\""
                  /\ FinalSegment(op.filePath, LastSent(op.window).status.arg)
                  /\ LastSent(op.window).fullPath = NoPath
                  /\ LastSent(op.window).displayFileName = NoPath
       /\ \A w \in Win :
              OnSaveStatus(w)
                  /\ Head(toRenderer[w]).status.text = "File successfully saved to \"%\"" =>
                  /\ fileName'[w] = fileName[w]
                  /\ displayFileName'[w] = displayFileName[w]
      ]_vars

\* A window bound to /d/report.md has the success status of its overwrite in
\* flight, naming report.md, binding and stored path kept.
C11_Witness ==
    \E w \in browserWindows :
        /\ windowFilePaths[w] = PathReport
        /\ fileName[w] = PathReport
        /\ toRenderer[w] # <<>>
        /\ Head(toRenderer[w]).status = Status("File successfully saved to \"%\"", ReportMd)
        /\ Head(toRenderer[w]).fullPath = NoPath

\* The event m is a result of the file operation op.
ResultOf(m, op) ==
    \/ /\ op.op = "read"
       /\ \/ m.chan = "file-content-ready" /\ m.fullPath = op.filePath
          \/ m.chan = "save-status" /\ m.status.text = "Error loading file: %"
    \/ /\ op.op = "saveas"
       /\ m.chan = "save-status"
       /\ \/ m.status.text = "File successfully saved as \"%\"" /\ m.fullPath = op.filePath
          \/ m.status.text = "Error saving file: %"
    \/ /\ op.op = "overwrite"
       /\ m.chan = "save-status"
       /\ \/ m.status.text = "File successfully saved to \"%\""
          \/ m.status.text = "Error overwriting file: %"

\* C12: the queue of messages to a window changes only by a message added at
\* its end, by the window handling the message at its head, or by the window
\* closing; a contentReady or status event (other than the cancellation of a
\* save dialog) is added only by the step in which a read or write dispatched
\* for that window completes, and is a result of that operation; and the step
\* in which an operation of an open window completes adds exactly one such
\* event to that window's queue and nothing to any other.
C12_OneEventPerCompletion ==
    [][/\ \A w \in Win :
              toRenderer'[w] # toRenderer[w] =>
                  \/ toRenderer[w] # <<>> /\ toRenderer'[w] = Tail(toRenderer[w])
                  \/ toRenderer'[w] = <<>> /\ w \notin browserWindows'
                  \/ /\ toRenderer'[w] = Append(toRenderer[w], LastSent(w))
                     /\ IsEvent(LastSent(w)) =>
                            \/ SaveDialogReturns(NoPath)
                            \/ \E op \in BagToSet(pendingIO) :
                                   /\ op.window = w
                                   /\ pendingIO' = pendingIO (-) SetToBag({op})
                                   /\ ResultOf(LastSent(w), op)
       /\ \A op \in BagToSet(pendingIO) :
              pendingIO' = pendingIO (-) SetToBag({op}) /\ op.window \in browserWindows =>
                  /\ SendsOnly(op.window, LastSent(op.window))
                  /\ IsEvent(LastSent(op.window))
                  /\ ResultOf(LastSent(op.window), op)
      ]_vars

\* Two reads of one window completed, /d/report.md first; their two events
\* are queued for it in that order.
C12_Witness ==
    \E w \in browserWindows :
        /\ Len(toRenderer[w]) = 2
        /\ toRenderer[w][1].chan = "file-content-ready"
        /\ toRenderer[w][1].fullPath = PathReport
        /\ toRenderer[w][2].chan = "file-content-ready"
        /\ toRenderer[w][2].fullPath = PathNotes
        /\ pendingIO = EmptyBag

\* Window w has a save-as request queued or its save dialog showing, or a
\* write pending.
SaveUnderWay(w) ==
    \/ \E i \in 1..Len(toMain[w]) :
           toMain[w][i].chan \in {"save-file-request", "overwrite-file-request"}
    \/ dialog.kind = "save" /\ dialog.window = w
    \/ \E op \in BagToSet(pendingIO) : op.window = w /\ op.op \in {"saveas", "overwrite"}

\* C13, as stated: while a save of window W1 is under way, its dialog showing
\* included, the callback of a read pending for another open window W2 can run.
C13_AsStated ==
    \A op \in BagToSet(pendingIO) :
        /\ op.op = "read"
        /\ op.window \in browserWindows
        /\ \E w1 \in browserWindows \ {op.window} : SaveUnderWay(w1)
        => ENABLED (\E err \in BOOLEAN, data \in FileTexts : ReadFileCallback(op, err, data))

\* C14: a click on Open File, Save File or Export HTML of the menu with
\* window F focused adds exactly one message, of the item's channel and with
\* no payload, to the queue of F, and changes nothing else: no other window's
\* queue, no request, no state of the main process or of a rendering surface;
\* with no window focused it changes nothing at all.  Menu messages enter a
\* queue in no other way.
C14_MenuToFocusedWindow ==
    [][/\ \A item \in MenuItems, focusedWindow \in browserWindows \cup {NoWindow} :
              MenuClick(item, focusedWindow) =>
                  IF focusedWindow = NoWindow
                  THEN UNCHANGED vars
                  ELSE /\ SendsOnly(focusedWindow, LastSent(focusedWindow))
                       /\ LastSent(focusedWindow).chan = item
                       /\ LastSent(focusedWindow).content = NoContent
                       /\ LastSent(focusedWindow).fullPath = NoPath
                       /\ UNCHANGED <<mainVars, toMain, rendererVars>>
       /\ \A w \in Win :
              /\ Len(toRenderer'[w]) > Len(toRenderer[w])
              /\ LastSent(w).chan \in MenuItems
              => /\ w \in browserWindows
                 /\ SendsOnly(w, LastSent(w))
                 /\ UNCHANGED <<mainVars, toMain, rendererVars>>
      ]_vars

\* Both windows are open; Export HTML was chosen with w2 focused: its message
\* is queued for w2 and nothing for w1.
C14_Witness ==
    /\ browserWindows = Win
    /\ toRenderer["w1"] = <<>>
    /\ Len(toRenderer["w2"]) = 1
    /\ toRenderer["w2"][1].chan = "menu-export-html"

\* The step is the callback of a failed read or write op.
Fails(op) ==
    \/ \E data \in FileTexts : ReadFileCallback(op, TRUE, data)
    \/ SaveWriteCallback(op, TRUE)
    \/ OverwriteCallback(op, TRUE)

\* The main process can handle the request at the head of the queue of sender s.
CanService(s) ==
    ENABLED (\/ IpcOpenFileDialog(s)
             \/ IpcSaveFileRequest(s)
             \/ IpcOverwriteFileRequest(s)
             \/ IpcNewWindowRequest(s)
             \/ IpcUpdateWindowTitle(s))

C16_CancelOpenSilent ==
    [][OpenDialogReturns(<<>>) =>
           /\ dialog' = NoDialog
           /\ pendingIO' = pendingIO
           /\ toRenderer' = toRenderer
           /\ toMain' = toMain
           /\ UNCHANGED <<browserWindows, openWindows, windowFilePaths>>
           /\ UNCHANGED <<markedText, fileName, displayFileName, listeners>>
      ]_vars

\* The open dialog is showing for a window that holds /d/report.md, with an
\* event still queued for it: the state in which the cancel acts.
C16_Witness ==
    /\ dialog.kind = "open"
    /\ dialog.window \in browserWindows
    /\ windowFilePaths[dialog.window] = PathReport
    /\ fileName[dialog.window] = PathReport
    /\ markedText[dialog.window] \in FileTexts
    /\ toRenderer[dialog.window] # <<>>

\* C17: a Save in window W, by the button or by the menu, adds exactly one
\* request to W's queue and none to another's: when W's stored path is not
\* null, an overwrite request with the current text and the stored path;
\* otherwise a save-as request with the current text and the current display
\* name as suggested name.  No overwrite request ever carries a null path.
C17_SaveChoosesRequest ==
    /\ [](\A w \in Win : \A i \in 1..Len(toMain[w]) :
              toMain[w][i].chan = "overwrite-file-request" =>
                  toMain[w][i].fullPath \in Paths)
    /\ [][\A w \in Win :
            SaveIn(w) =>
                /\ toMain'[w] = Append(toMain[w], Requested(w))
                /\ \A v \in Win \ {w} : toMain'[v] = toMain[v]
                /\ Requested(w) =
                       IF fileName[w] # NoPath
                       THEN Req("overwrite-file-request", Markdown(markedText[w]),
                                NoPath, fileName[w])
                       ELSE Req("save-file-request", Markdown(markedText[w]),
                                displayFileName[w], NoPath)
         ]_vars

\* Both cases at once: w1 holds /d/report.md and its Save is an overwrite
\* request in flight; w2 has no file and its Save is a save-as request in
\* flight, suggesting Untitled.md.
C17_Witness ==
    /\ browserWindows = Win
    /\ fileName["w1"] = PathReport
    /\ toMain["w1"] = <<Req("overwrite-file-request", Markdown(markedText["w1"]),
                            NoPath, PathReport)>>
    /\ fileName["w2"] = NoPath
    /\ toMain["w2"] = <<Req("save-file-request", Markdown(DefaultMarkdown),
                            Untitled, NoPath)>>

\* C18: an Export HTML in window W adds one save-as request with the rendered
\* HTML of the current text as content; the main process handles it as any
\* save-as request: it shows the save dialog, and with path E chosen
\* dispatches a write of that HTML to E; when the write succeeds for an open
\* W, the binding of W becomes E and the status event carries E and its final
\* segment; handling the event makes E the stored path and that segment the
\* display name; and a Save with stored path E is an overwrite request for E
\* with the markdown source text.
C18_ExportIsSaveAs ==
    [][/\ \A w \in Win :
              ExportIn(w) =>
                  /\ toMain'[w] = Append(toMain[w], Requested(w))
                  /\ Requested(w).chan = "save-file-request"
                  /\ Requested(w).content = MarkedParse(markedText[w])
                  /\ Requested(w).fullPath = NoPath
       /\ \A s \in browserWindows :
              IpcSaveFileRequest(s) /\ Head(toMain[s]).content.fmt = "html" =>
                  /\ dialog'.kind = "save"
                  /\ dialog'.window = s
                  /\ dialog'.content = Head(toMain[s]).content
       /\ \A E \in Paths :
              SaveDialogReturns(E) /\ dialog.content.fmt = "html" =>
                  pendingIO' = pendingIO (+)
                      SetToBag({IO("saveas", dialog.window, E, dialog.content, dialog.window)})
       /\ \A op \in BagToSet(pendingIO) :
              /\ SaveWriteCallback(op, FALSE)
              /\ op.content.fmt = "html"
              /\ op.window \in browserWindows
              => /\ windowFilePaths'[op.window] = op.filePath
                 /\ SendsOnly(op.window, LastSent(op.window))
                 /\ LastSent(op.window).fullPath = op.filePath
                 /\ FinalSegment(op.filePath, LastSent(op.window).displayFileName)
       /\ \A w \in Win :
              /\ OnSaveStatus(w) /\ Head(toRenderer[w]).fullPath # NoPath =>
                     /\ fileName'[w] = Head(toRenderer[w]).fullPath
                     /\ displayFileName'[w] = Head(toRenderer[w]).displayFileName
                     /\ markedText'[w] = markedText[w]
              /\ SaveIn(w) /\ fileName[w] \in Paths =>
                     Requested(w) = Req("overwrite-file-request", Markdown(markedText[w]),
                                        NoPath, fileName[w])
      ]_vars

\* Window w opened /d/report.md and exported it: the write of the rendered
\* HTML of its text to the chosen path /e/Notes.MARKDOWN is pending.
C18_Witness ==
    \E w \in browserWindows :
        /\ fileName[w] = PathReport
        /\ markedText[w] \in FileTexts
        /\ BagIn(IO("saveas", w, PathNotes, MarkedParse(markedText[w]), w), pendingIO)

\* The step is the handling of a menu message by the rendering surface of w.
MenuHandled(w) == OnMenuOpenFile(w) \/ OnMenuSaveFile(w) \/ OnMenuExportHtml(w)

\* C19: in every reachable state, each of the five incoming channels of a
\* window has exactly one listener while its rendering surface is mounted,
\* created with the surface's current text, path and display name, and none
\* once the surface is gone; so the handling of a menu message sends exactly
\* one request, and a menu Save sends the request the current text and path
\* make.
C19_OneListenerPerChannel ==
    /\ [](\A w \in Win : \A c \in Channels :
              IF w \in browserWindows
              THEN listeners[w][c] =
                       <<Handlers(markedText[w], fileName[w], displayFileName[w])>>
              ELSE listeners[w][c] = <<>>)
    /\ [][\A w \in Win :
            /\ MenuHandled(w) => Len(toMain'[w]) = Len(toMain[w]) + 1
            /\ OnMenuSaveFile(w) =>
                   Requested(w) = SaveRequest(markedText[w], fileName[w], displayFileName[w])
         ]_vars

\* The surface of w1 re-registered its listeners as it opened
\* /e/Notes.MARKDOWN and the text was then edited, and a menu Save is queued
\* for it; w2 was open and has been closed.
C19_Witness ==
    /\ browserWindows = {"w1"}
    /\ "w2" \in allocated
    /\ listeners["w1"]["menu-save-file"] = <<Handlers(DefaultMarkdown, PathNotes, NotesMARKDOWN)>>
    /\ toRenderer["w1"] # <<>>
    /\ Head(toRenderer["w1"]).chan = "menu-save-file"
    /\ listeners["w2"]["menu-save-file"] = <<>>

\* Window w has a title update queued for the main process.
TitlePending(w) ==
    \E i \in 1..Len(toMain[w]) : toMain[w][i].chan = "update-window-title"

\* C20: handling a title update of open window W sets the title of W to the
\* title sent and leaves every other window's title, and a title changes in
\* no other way while its window is open; every step that changes the display
\* name of an open window W to D queues the title update 'D - Markdown
\* Editor' from W; and whenever no title update of W is queued, the title of
\* W is its current display name followed by ' - Markdown Editor'.
C20_TitleFollowsDisplayName ==
    /\ [](\A w \in browserWindows :
              ~TitlePending(w) => title[w] = displayFileName[w] \o TitleSuffix)
    /\ [][\A w \in Win :
            /\ IpcUpdateWindowTitle(w) /\ w \in browserWindows =>
                   /\ title'[w] = Head(toMain[w]).title
                   /\ \A v \in Win \ {w} : title'[v] = title[v]
            /\ title'[w] # title[w] /\ w \in browserWindows' /\ w \in browserWindows =>
                   IpcUpdateWindowTitle(w)
            /\ displayFileName'[w] # displayFileName[w] /\ w \in browserWindows' =>
                   /\ toMain'[w] = Append(toMain[w], Requested(w))
                   /\ Requested(w).chan = "update-window-title"
                   /\ Requested(w).title = displayFileName'[w] \o TitleSuffix
         ]_vars

\* w1 opened /d/report.md and w2 is new; every title update is handled, and
\* the titles are 'report.md - Markdown Editor' and 'Untitled.md - Markdown
\* Editor'.
C20_Witness ==
    /\ browserWindows = Win
    /\ toMain = [w \in Win |-> <<>>]
    /\ displayFileName["w1"] = ReportMd
    /\ title["w1"] = ReportMd \o TitleSuffix
    /\ title["w2"] = Untitled \o TitleSuffix

\* What New Document leaves of the document of window w.
IsReset(w) ==
    /\ markedText'[w] = DefaultMarkdown
    /\ fileName'[w] = NoPath
    /\ displayFileName'[w] = Untitled

\* C21, as stated: New Document resets the text, the stored path and the
\* display name and sends no request to the main process.
C21_AsStated ==
    [][\A w \in Win : clearEditor(w) => IsReset(w) /\ toMain' = toMain]_vars

\* C21, amended: New Document resets the text to the default template, the
\* stored path to null and the display name to Untitled.md, and sends no
\* open, save, overwrite or new-window request: the only message it causes is
\* the title update 'Untitled.md - Markdown Editor', sent when the display
\* name was another one; nothing of the main process changes.  From then on
\* the stored path of W becomes non-null only by W handling a contentReady
\* or a status event with a path that was in flight to it, and a Save with a
\* null stored path is a save-as request, never an overwrite.
C21_NewDocument ==
    [][\A w \in Win :
        /\ clearEditor(w) =>
               /\ IsReset(w)
               /\ UNCHANGED <<mainVars, toRenderer>>
               /\ \A v \in Win \ {w} : toMain'[v] = toMain[v]
               /\ toMain'[w] = IF displayFileName[w] = Untitled THEN toMain[w]
                               ELSE Append(toMain[w], TitleReq(Untitled \o TitleSuffix))
        /\ fileName[w] = NoPath /\ fileName'[w] # NoPath =>
               /\ toRenderer[w] # <<>>
               /\ IsEvent(Head(toRenderer[w]))
               /\ Head(toRenderer[w]).fullPath = fileName'[w]
               /\ OnFileContentReady(w) \/ OnSaveStatus(w)
        /\ SaveIn(w) /\ fileName[w] = NoPath =>
               /\ Requested(w).chan = "save-file-request"
               /\ Requested(w).defaultFileName = displayFileName[w]
               /\ dialog' = dialog /\ pendingIO' = pendingIO
      ]_vars

\* Window w opened /d/report.md and was reset by New Document: the main
\* process still binds it to the file, nothing is in flight to it, and its
\* Save is a save-as request suggesting Untitled.md.
C21_Witness ==
    \E w \in browserWindows :
        /\ windowFilePaths[w] = PathReport
        /\ fileName[w] = NoPath
        /\ toRenderer[w] = <<>>
        /\ pendingIO = EmptyBag
        /\ \E i \in 1..Len(toMain[w]) :
               toMain[w][i] = Req("save-file-request", Markdown(DefaultMarkdown),
                                  Untitled, NoPath)

\* The step creates window w.
Creates(w) == w \notin browserWindows /\ w \in browserWindows'

\* C22: the live-window set openWindows is, in every reachable state, the set
\* of windows created and not yet closed; an activation with no window live
\* creates exactly one window, an activation with a window live changes
\* nothing; and a window is created only by an activation with no window
\* live or by the handling of a new-window request.
C22_ActivateOrCreate ==
    /\ [](openWindows = browserWindows)
    /\ [][/\ Activate /\ browserWindows = {} =>
                 /\ Cardinality(browserWindows') = 1
                 /\ openWindows' = browserWindows'
                 /\ UNCHANGED <<windowFilePaths, dialog, pendingIO, toRenderer>>
          /\ Activate /\ browserWindows # {} => UNCHANGED vars
          /\ \A w \in Win :
                 Creates(w) =>
                     \/ browserWindows = {} /\ Activate
                     \/ \E s \in Win : IpcNewWindowRequest(s)
         ]_vars

\* The first window was closed, leaving no window live, and a window was
\* then created: it is the one live window, its first title update not yet
\* handled.
C22_Witness ==
    /\ browserWindows = {"w2"}
    /\ openWindows = {"w2"}
    /\ "w1" \in allocated
    /\ toMain["w1"] = <<>>
    /\ toMain["w2"] = <<TitleReq(Untitled \o TitleSuffix)>>
    /\ title["w2"] = NoTitle

\* A contentReady or status event is in flight to window w.
EventInFlight(w) == \E i \in 1..Len(toRenderer[w]) : IsEvent(toRenderer[w][i])

\* C23: in every reachable state, an open window to which no contentReady or
\* status event is in flight and whose rendering surface holds a non-null
\* stored path is bound in the registry to exactly that path.
C23_StoredPathIsBinding ==
    \A w \in browserWindows :
        ~EventInFlight(w) /\ fileName[w] # NoPath => fileName[w] = windowFilePaths[w]

\* Window w holds /e/Notes.MARKDOWN, every event is handled, stored path and
\* binding are both that path, and two more file operations of w are pending
\* at once, one of them a read of /d/report.md.
C23_Witness ==
    \E w \in browserWindows :
        /\ fileName[w] = PathNotes
        /\ windowFilePaths[w] = PathNotes
        /\ markedText[w] \in FileTexts
        /\ toRenderer[w] = <<>>
        /\ BagCardinality(pendingIO) = 2
        /\ \A op \in BagToSet(pendingIO) : op.window = w
        /\ \E op \in BagToSet(pendingIO) : op.op = "read" /\ op.filePath = PathReport

\* The step is the callback of the file operation op.
CallbackOf(op) ==
    \/ \E err \in BOOLEAN, data \in FileTexts : ReadFileCallback(op, err, data)
    \/ \E err \in BOOLEAN : SaveWriteCallback(op, err)
    \/ \E err \in BOOLEAN : OverwriteCallback(op, err)

\* C24, as stated: the callback of a read or write whose window was closed
\* meanwhile sends no event and creates or updates no binding.
C24_AsStated ==
    [][\A op \in BagToSet(pendingIO) :
           CallbackOf(op) /\ op.window \notin browserWindows =>
               /\ toRenderer' = toRenderer
               /\ windowFilePaths' = windowFilePaths
      ]_vars

\* Window w has more than one save of its document under way: save-as or
\* overwrite requests with the markdown text not yet handled, its save dialog
\* showing, writes of the markdown text pending.
SavesUnderWay(w) ==
    Cardinality({i \in 1..Len(toMain[w]) :
                     /\ toMain[w][i].chan \in {"save-file-request", "overwrite-file-request"}
                     /\ toMain[w][i].content.fmt = "md"})
        + (IF dialog.kind = "save" /\ dialog.window = w /\ dialog.content.fmt = "md"
           THEN 1 ELSE 0)
        + BagCardinality([op \in {o \in BagToSet(pendingIO) :
                                      /\ o.window = w
                                      /\ o.op \in {"saveas", "overwrite"}
                                      /\ o.content.fmt = "md"} |-> pendingIO[op]])

\* C25, as stated: at most one Save of a window is under way at any time.
C25_AsStated == \A w \in Win : SavesUnderWay(w) <= 1
====
